---- MODULE Spec2Model ----
(***************************************************************************)
(* Basal-temperature (Tb) estimation: the two programs of the repository.  *)
(*   app.py                        validate_data + calculate_tb (QME mode) *)
(*   app_agrometeorologia_excel.py estimar_tb_otimo + main      (R2 mode)  *)
(*                                                                         *)
(* Numbers.  Temperatures and thermal sums are integers counting 1/Scale   *)
(* of a degree Celsius, leaf counts are integers, and every score, slope   *)
(* and intercept is an exact fraction [num, den].  The regression of the   *)
(* programs runs in binary64; the model computes the same least-squares    *)
(* formulas without rounding.  The one place where the binary64 rounding   *)
(* decides a discrete outcome, the length of numpy.arange, is computed in  *)
(* binary64 (section "binary64").                                          *)
(***************************************************************************)
EXTENDS Integers, Sequences, FiniteSets, TLC

\* 1/Scale degree is the unit of Tmed, STd, STa and Tb: halves (Tmed) of
\* tenths (the Tb inputs of the Excel program).
Scale == 2 * 10

(***************************************************************************)
(* Cells of a table.  A numeric cell, a blank cell (pandas NaN), a text    *)
(* cell that is no number and no date, a date string, a parsed date, NaT.  *)
(***************************************************************************)
Num(n) == [k |-> "num", v |-> n]
NaN == [k |-> "nan", v |-> 0]
Txt == [k |-> "txt", v |-> 0]
DateStr(d) == [k |-> "datestr", v |-> d]
Timestamp(d) == [k |-> "timestamp", v |-> d]
NaT == [k |-> "nat", v |-> 0]
IsNum(c) == c.k = "num"
isnull(c) == c.k \in {"nan", "nat"}

\* pd.to_numeric(cell, errors='coerce')
to_numeric(c) == IF c.k = "num" THEN c ELSE NaN

\* pd.to_datetime(cell, errors='coerce'): what does not parse becomes NaT
to_datetime_coerce(c) ==
    IF c.k \in {"datestr", "timestamp"} THEN Timestamp(c.v) ELSE NaT

\* pd.to_datetime(column, errors='raise'): raises on a cell that does not
\* parse; parsed dates and NaT/NaN pass through.
to_datetime_raises(col) == \E i \in DOMAIN col : col[i].k = "txt"

(***************************************************************************)
(* Exact fractions                                                         *)
(***************************************************************************)
Abs(n) == IF n < 0 THEN -n ELSE n

RECURSIVE Gcd(_, _)
Gcd(a, b) == IF b = 0 THEN a ELSE Gcd(b, a % b)

Frac(n, d) ==
    LET g == Gcd(Abs(n), Abs(d))
        s == IF d < 0 THEN -1 ELSE 1
    IN  [nan |-> FALSE, num |-> s * (n \div g), den |-> s * (d \div g)]
FNaN == [nan |-> TRUE, num |-> 0, den |-> 1]
Zero == Frac(0, 1)
One == Frac(1, 1)

\* p/q < r/s for q, s > 0, by continued fractions (no cross products)
RECURSIVE RatLess(_, _, _, _)
RatLess(p, q, r, s) ==
    LET a == p \div q
        b == r \div s
        x == p % q
        y == r % s
    IN  IF a # b THEN a < b
        ELSE IF y = 0 THEN FALSE
        ELSE IF x = 0 THEN TRUE
        ELSE RatLess(s, y, q, x)

\* the order of floats: every comparison with NaN is False
Less(f, g) == ~f.nan /\ ~g.nan /\ RatLess(f.num, f.den, g.num, g.den)

(***************************************************************************)
(* Thermal sums                                                            *)
(***************************************************************************)
\* (tmin + tmax) / 2, NaN if either is missing
calcular_tmed(tmin, tmax) ==
    IF IsNum(tmin) /\ IsNum(tmax)
    THEN Num((Scale \div 2) * (tmin.v + tmax.v))
    ELSE NaN

\* the excess of tb over tmed: max(tb - tmed, 0)
calcular_std_below(tmed, tb) ==
    IF IsNum(tmed) THEN Num(IF tb - tmed.v < 0 THEN 0 ELSE tb - tmed.v) ELSE NaN
\* tmed - tb without the clamp at 0
calcular_std_unclamped(tmed, tb) ==
    IF IsNum(tmed) THEN Num(tmed.v - tb) ELSE NaN
\* np.maximum(tmed - tb, 0); app.py: STd = Tmed - tb, negative set to 0
calcular_std(tmed, tb) ==
    IF IsNum(tmed) THEN Num(IF tmed.v - tb < 0 THEN 0 ELSE tmed.v - tb) ELSE NaN

\* Series.cumsum() (np.cumsum of a Series is the same call): skipna, a NaN
\* entry stays NaN and the running sum goes on after it
RECURSIVE SumTo(_, _)
SumTo(s, i) ==
    IF i = 0 THEN 0
    ELSE SumTo(s, i - 1) + (IF IsNum(s[i]) THEN s[i].v ELSE 0)

calcular_sta(std) ==
    [i \in DOMAIN std |-> IF IsNum(std[i]) THEN Num(SumTo(std, i)) ELSE NaN]

(***************************************************************************)
(* Ordinary least squares y = coef * x + intercept over n >= 1 points      *)
(***************************************************************************)
RECURSIVE SumF(_, _, _)
SumF(F(_), s, i) == IF i = 0 THEN 0 ELSE SumF(F, s, i - 1) + F(s[i])

\* the sums the fit needs; A = n^2 Var(x), B = n^2 Cov(x, y), C = n^2 Var(y)
Moments(xs, ys) ==
    LET n == Len(xs)
        idx == [i \in 1..n |-> i]
        Sx == SumF(LAMBDA i : xs[i], idx, n)
        Sy == SumF(LAMBDA i : ys[i], idx, n)
        Sxx == SumF(LAMBDA i : xs[i] * xs[i], idx, n)
        Sxy == SumF(LAMBDA i : xs[i] * ys[i], idx, n)
        Syy == SumF(LAMBDA i : ys[i] * ys[i], idx, n)
    IN  [n |-> n, Sx |-> Sx, Sy |-> Sy,
         A |-> n * Sxx - Sx * Sx,
         B |-> n * Sxy - Sx * Sy,
         C |-> n * Syy - Sy * Sy]

\* LinearRegression().fit: coef_[0] (per degree) and intercept_; a constant
\* x gets the minimum-norm solution, slope 0
coef_(m) == IF m.A = 0 THEN Zero ELSE Frac(Scale * m.B, m.A)
intercept_(m) ==
    IF m.A = 0 THEN Frac(m.Sy, m.n)
    ELSE Frac(m.Sy * m.A - m.B * m.Sx, m.n * m.A)

\* mean_squared_error(y, y_pred) of the fitted line
mean_squared_error(m) ==
    IF m.A = 0 THEN Frac(m.C, m.n * m.n)
    ELSE Frac(m.A * m.C - m.B * m.B, m.A * m.n * m.n)

\* r2_score(y, y_pred) of the fitted line: NaN under two samples, 1 for a
\* perfect fit of a constant y, else 1 - SSE/SST
r2_score(m) ==
    IF m.n < 2 THEN FNaN
    ELSE IF m.C = 0 THEN One
    ELSE IF m.A = 0 THEN Zero
    ELSE Frac(m.B * m.B, m.A * m.C)

(***************************************************************************)
(* binary64.  A non-negative double is [m, e], the value m * 2^e with the  *)
(* 53-bit significand 2^52 <= m < 2^53 (m = 0 for 0.0).  A significand is  *)
(* held in two limbs <<hi, lo>> = hi * 2^30 + lo, so that every            *)
(* intermediate stays under 2^31.  Results are rounded to nearest, ties to *)
(* even, as IEEE 754 prescribes for + - / .                                *)
(***************************************************************************)
Limb == 1024 * 1024 * 1024
BZero == <<0, 0>>
BInt(n) == <<0, n>>
BIsZero(a) == a[1] = 0 /\ a[2] = 0
BOdd(a) == a[2] % 2 = 1
BGeq(a, b) == a[1] > b[1] \/ (a[1] = b[1] /\ a[2] >= b[2])
BAdd(a, b) == <<a[1] + b[1] + ((a[2] + b[2]) \div Limb), (a[2] + b[2]) % Limb>>
BSub(a, b) ==
    IF a[2] >= b[2] THEN <<a[1] - b[1], a[2] - b[2]>>
    ELSE <<a[1] - b[1] - 1, a[2] + Limb - b[2]>>
BDouble(a) == BAdd(a, a)
BHalf(a) == <<a[1] \div 2, (a[2] \div 2) + (a[1] % 2) * (Limb \div 2)>>
\* 2^52 and 2^53 in limbs: 2^22 * 2^30, 2^23 * 2^30
BMin == <<4 * 1024 * 1024, 0>>
BMax == <<8 * 1024 * 1024, 0>>

RECURSIVE BShl(_, _)
BShl(a, n) == IF n = 0 THEN a ELSE BShl(BDouble(a), n - 1)

\* the double nearest to p * 2^e, where sticky says that the exact value is
\* a little above p * 2^e (by less than one unit of p)
RECURSIVE RoundDown(_, _)
RoundDown(s, e) ==
    LET p == s[1]
        guard == s[2]
        sticky == s[3]
    IN  IF BGeq(p, BMax)
        THEN RoundDown(<<BHalf(p), BOdd(p), sticky \/ guard>>, e + 1)
        ELSE IF guard /\ (sticky \/ BOdd(p))
             THEN LET q == BAdd(p, BInt(1))
                  IN  IF BGeq(q, BMax) THEN [m |-> BHalf(q), e |-> e + 1]
                      ELSE [m |-> q, e |-> e]
             ELSE [m |-> p, e |-> e]

RECURSIVE RoundUp(_, _)
RoundUp(p, e) == IF BGeq(p, BMin) THEN [m |-> p, e |-> e] ELSE RoundUp(BDouble(p), e - 1)

Round(p, e, sticky) ==
    IF BIsZero(p) THEN [m |-> BZero, e |-> 0]
    ELSE IF BGeq(p, BMin) THEN RoundDown(<<p, FALSE, sticky>>, e)
    ELSE RoundUp(p, e)

FInt(n) == Round(BInt(n), 0, FALSE)
FIsZero(a) == BIsZero(a.m)
FLess(a, b) ==
    IF FIsZero(b) THEN FALSE
    ELSE IF FIsZero(a) THEN TRUE
    ELSE a.e < b.e \/ (a.e = b.e /\ ~BGeq(a.m, b.m))

\* a + b and a - b (for a >= b): the exact result, rounded
FAdd(a, b) ==
    IF FIsZero(a) THEN b ELSE IF FIsZero(b) THEN a
    ELSE LET e == IF a.e < b.e THEN a.e ELSE b.e
         IN  Round(BAdd(BShl(a.m, a.e - e), BShl(b.m, b.e - e)), e, FALSE)
FSub(a, b) ==
    IF FIsZero(b) THEN a
    ELSE LET e == IF a.e < b.e THEN a.e ELSE b.e
         IN  Round(BSub(BShl(a.m, a.e - e), BShl(b.m, b.e - e)), e, FALSE)

\* a / b: QuotBits bits of the quotient of the significands, and whether a
\* remainder is left
QuotBits == 53 + 2
RECURSIVE LongDiv(_, _, _)
LongDiv(s, d, n) ==
    IF n = 0 THEN [q |-> s[1], sticky |-> ~BIsZero(s[2])]
    ELSE LET r2 == BDouble(s[2])
         IN  IF BGeq(r2, d)
             THEN LongDiv(<<BAdd(BDouble(s[1]), BInt(1)), BSub(r2, d)>>, d, n - 1)
             ELSE LongDiv(<<BDouble(s[1]), r2>>, d, n - 1)
FDiv(a, b) ==
    IF FIsZero(a) THEN a
    ELSE LET first == BGeq(a.m, b.m)
             d == LongDiv(IF first THEN <<BInt(1), BSub(a.m, b.m)>>
                                   ELSE <<BZero, a.m>>, b.m, QuotBits)
         IN  Round(d.q, a.e - b.e - QuotBits, d.sticky)

\* math.ceil of a double, as an integer
RECURSIVE CeilShift(_, _)
CeilShift(s, e) ==
    IF e = 0 \/ BIsZero(s[1]) THEN s[1][2] + (IF s[2] THEN 1 ELSE 0)
    ELSE CeilShift(<<BHalf(s[1]), s[2] \/ BOdd(s[1])>>, e + 1)
FCeil(a) ==
    IF FIsZero(a) THEN 0
    ELSE IF a.e >= 0 THEN BShl(a.m, a.e)[2]
    ELSE CeilShift(<<a.m, FALSE>>, a.e)

\* the double of the decimal n/10, as a number_input returns it
Tenths(n) == FDiv(FInt(n), FInt(10))

\* len(np.arange(start, stop, step)) = ceil((stop - start) / step), for
\* doubles start, stop and step > 0
np_arange_len(start, stop, step) ==
    IF ~FLess(start, stop) THEN 0
    ELSE FCeil(FDiv(FSub(stop, start), step))

\* the length of np.arange(tb_min, tb_max + tb_step, tb_step)
arange_len(tb_min, tb_max, tb_step) ==
    np_arange_len(Tenths(tb_min), FAdd(Tenths(tb_max), Tenths(tb_step)),
                  Tenths(tb_step))

(***************************************************************************)
(* Tables.  A table is [cols, rows]: the set of its column names and the   *)
(* sequence of its rows, each a function from the column names to cells.   *)
(***************************************************************************)
Column(df, c) == [i \in DOMAIN df.rows |-> df.rows[i][c]]
SetColumn(df, c, col) ==
    [df EXCEPT !.rows = [i \in DOMAIN df.rows |->
                            [df.rows[i] EXCEPT ![c] = col[i]]]]
Indices(s) == [i \in 1..Len(s) |-> i]

\* pandas idxmin()/idxmax(): the first position of the optimum, NaN skipped;
\* 0 when there is nothing to choose from
RECURSIVE ArgScan(_, _, _, _)
ArgScan(Better(_, _), col, i, best) ==
    IF i > Len(col) THEN best
    ELSE IF col[i].nan THEN ArgScan(Better, col, i + 1, best)
    ELSE IF best = 0 \/ Better(col[i], col[best])
         THEN ArgScan(Better, col, i + 1, i)
         ELSE ArgScan(Better, col, i + 1, best)

\* the last position of the minimum instead of the first
idxmin_last(col) == ArgScan(LAMBDA a, b : ~Less(b, a), col, 1, 0)
idxmin(col) == ArgScan(LAMBDA a, b : Less(a, b), col, 1, 0)
idxmax(col) == ArgScan(LAMBDA a, b : Less(b, a), col, 1, 0)

(***************************************************************************)
(* app.py                                                                  *)
(***************************************************************************)
required_cols == <<"Data", "Tmin", "Tmax", "NF">>

MsgColunas(missing) == [msg |-> "colunas_obrigatorias", cols |-> missing]
MsgData == [msg |-> "data_invalida", cols |-> <<>>]
MsgTminTmax == [msg |-> "tmin_maior_tmax", cols |-> <<>>]
MsgNF == [msg |-> "nf_diminui", cols |-> <<>>]

\* validate_data(df): (df, errors)
validate_data(df) ==
    LET missing_cols == SelectSeq(required_cols, LAMBDA c : c \notin df.cols)
    IN  IF missing_cols # <<>>
        THEN [df |-> df, errors |-> <<MsgColunas(missing_cols)>>]
        ELSE
        LET raw == Column(df, "Data")
            \* line 50: the column is overwritten by the dayfirst parse
            coerced == [i \in DOMAIN raw |-> to_datetime_coerce(raw[i])]
            \* lines 51-53: the retry reads the column line 50 has written
            retry == \E i \in DOMAIN coerced : isnull(coerced[i])
            raised == retry /\ to_datetime_raises(coerced)
            e1 == IF raised THEN <<MsgData>> ELSE <<>>
            df1 == SetColumn(df, "Data", coerced)
            df2 == [df1 EXCEPT !.rows = [i \in DOMAIN df1.rows |->
                      [c \in df1.cols |->
                          IF c \in {"Tmin", "Tmax", "NF"}
                          THEN to_numeric(df1.rows[i][c])
                          ELSE df1.rows[i][c]]]]
            gt == \E i \in DOMAIN df2.rows :
                      /\ IsNum(df2.rows[i]["Tmin"])
                      /\ IsNum(df2.rows[i]["Tmax"])
                      /\ df2.rows[i]["Tmin"].v > df2.rows[i]["Tmax"].v
            e2 == IF gt THEN <<MsgTminTmax>> ELSE <<>>
            nf_series == SelectSeq(Column(df2, "NF"), IsNum)
            dec == \E i \in 2..Len(nf_series) :
                       nf_series[i].v - nf_series[i - 1].v < 0
            e3 == IF dec THEN <<MsgNF>> ELSE <<>>
        IN  [df |-> df2, errors |-> e1 \o e2 \o e3]

\* np.arange(0, 20.5, 0.5): NBaseTemps candidates, half a degree apart
NBaseTemps == np_arange_len(FInt(0), Tenths(205), Tenths(5))
base_temps == [i \in 1..NBaseTemps |-> (i - 1) * (Scale \div 2)]

NoRow == [Tb |-> -1, QME |-> FNaN, R2 |-> FNaN]

\* the STa column of a table of numeric Tmin/Tmax for the candidate tb
STaColumn(df, tb) ==
    calcular_sta([i \in DOMAIN df.rows |->
        calcular_std(calcular_tmed(df.rows[i]["Tmin"], df.rows[i]["Tmax"]), tb)])

\* one pass of the loop of calculate_tb, lines 85-108; LinearRegression.fit
\* raises ValueError on an empty sample and on a NaN in X
Fit(df, pheno, tb) ==
    LET sta == STaColumn(df, tb)
    IN  IF pheno = <<>> \/ \E j \in DOMAIN pheno : ~IsNum(sta[pheno[j]])
        THEN [raised |-> TRUE, row |-> NoRow]
        ELSE
        LET X == [j \in DOMAIN pheno |-> sta[pheno[j]].v]
            y == [j \in DOMAIN pheno |-> df.rows[pheno[j]]["NF"].v]
            m == Moments(X, y)
        IN  [raised |-> FALSE,
             row |-> [Tb |-> tb, QME |-> mean_squared_error(m), R2 |-> r2_score(m)]]

\* calculate_tb(df): raises, or (results_df, best_tb)
calculate_tb(df) ==
    IF ~({"Tmin", "Tmax", "NF"} \subseteq df.cols)
    THEN [raised |-> TRUE, results_df |-> <<>>, best_tb |-> NoRow]
    ELSE
    LET pheno == SelectSeq(Indices(df.rows),
                           LAMBDA i : IsNum(df.rows[i]["NF"]))
        fits == [t \in DOMAIN base_temps |-> Fit(df, pheno, base_temps[t])]
        results == [t \in DOMAIN fits |-> fits[t].row]
        best == idxmin([t \in DOMAIN results |-> results[t].QME])
    IN  IF \E t \in DOMAIN fits : fits[t].raised
        THEN [raised |-> TRUE, results_df |-> <<>>, best_tb |-> NoRow]
        ELSE [raised |-> FALSE, results_df |-> results, best_tb |-> results[best]]

(***************************************************************************)
(* app_agrometeorologia_excel.py                                           *)
(***************************************************************************)
\* what realizar_regressao returns when it does not fit: None, None, 0
NoFit == [raised |-> FALSE, coef |-> FNaN, intercept |-> FNaN, r2 |-> Zero]
Raised == [raised |-> TRUE, coef |-> FNaN, intercept |-> FNaN, r2 |-> FNaN]

\* realizar_regressao(x, y, inicio_emergencia), x a pandas Series (the
\* cumsum of a Series) and y an array.  x[k:].reshape(-1, 1) is a call of
\* Series.reshape, which pandas has or has not: reshape says which.
\* the thermal sum restarted at the emergence row: x counted from the STa
\* of the last skipped row
realizar_regressao_restarted(x, y, inicio_emergencia, reshape) ==
    IF Len(x) <= inicio_emergencia THEN NoFit
    ELSE IF ~reshape THEN Raised
    ELSE
    LET base == IF inicio_emergencia > 0 /\ IsNum(x[inicio_emergencia])
                THEN x[inicio_emergencia].v ELSE 0
        mask == SelectSeq(Indices(x),
                    LAMBDA i : /\ i > inicio_emergencia
                               /\ IsNum(x[i]) /\ IsNum(y[i]))
    IN  IF Len(mask) < 2 THEN NoFit
        ELSE
        LET m == Moments([j \in DOMAIN mask |-> x[mask[j]].v - base],
                         [j \in DOMAIN mask |-> y[mask[j]].v])
        IN  [raised |-> FALSE, coef |-> coef_(m),
             intercept |-> intercept_(m), r2 |-> r2_score(m)]
realizar_regressao(x, y, inicio_emergencia, reshape) ==
    IF Len(x) <= inicio_emergencia THEN NoFit
    ELSE IF ~reshape THEN Raised
    ELSE
    LET mask == SelectSeq(Indices(x),
                    LAMBDA i : /\ i > inicio_emergencia
                               /\ IsNum(x[i]) /\ IsNum(y[i]))
    IN  IF Len(mask) < 2 THEN NoFit
        ELSE
        LET m == Moments([j \in DOMAIN mask |-> x[mask[j]].v],
                         [j \in DOMAIN mask |-> y[mask[j]].v])
        IN  [raised |-> FALSE, coef |-> coef_(m),
             intercept |-> intercept_(m), r2 |-> r2_score(m)]

Placeholder(tb) ==
    [Tb |-> tb, R2 |-> Zero, Coeficiente_Angular |-> Zero, Intercepto |-> Zero]

\* one pass of the loop of estimar_tb_otimo: the row of the candidate tb
ResultRow(df, tb, col_tmin, col_tmax, col_nf, inicio_emergencia, reshape) ==
    LET tmed == [i \in DOMAIN df.rows |->
                    calcular_tmed(to_numeric(df.rows[i][col_tmin]),
                                  to_numeric(df.rows[i][col_tmax]))]
        std == [i \in DOMAIN tmed |-> calcular_std(tmed[i], tb)]
        sta == calcular_sta(std)
        nf_values == [i \in DOMAIN df.rows |-> to_numeric(df.rows[i][col_nf])]
        r == realizar_regressao(sta, nf_values, inicio_emergencia, reshape)
    IN  IF r.raised THEN Placeholder(tb)
        ELSE [Tb |-> tb,
              R2 |-> r.r2,
              Coeficiente_Angular |-> IF r.coef.nan THEN Zero ELSE r.coef,
              Intercepto |-> IF r.intercept.nan THEN Zero ELSE r.intercept]

\* estimar_tb_otimo: one row per element of tb_range
estimar_tb_otimo(df, tb_range, col_tmin, col_tmax, col_nf, inicio_emergencia, reshape) ==
    [t \in DOMAIN tb_range |->
        ResultRow(df, tb_range[t], col_tmin, col_tmax, col_nf,
                  inicio_emergencia, reshape)]

\* np.arange(tb_min, tb_max + tb_step, tb_step), the inputs in tenths of a
\* degree, the elements tb_min + i * tb_step in 1/Scale degree
np_arange(tb_min, tb_max, tb_step, len) ==
    [i \in 1..len |-> (Scale \div 10) * (tb_min + (i - 1) * tb_step)]

(***************************************************************************)
(* Inputs                                                                  *)
(***************************************************************************)
MaxRows == 3

\* (Tmin, Tmax) of a day, in degrees: a cool day (Tmed 4), a warm day
\* (Tmed 10); the leaf counts of a measurement day
TempPairs == {<<Num(2), Num(6)>>, <<Num(8), Num(12)>>}
NFValues == 1..2
NFCells == {NaN} \cup {Num(v) : v \in NFValues}

CleanRows ==
    {[Data |-> DateStr(0), Tmin |-> t[1], Tmax |-> t[2], NF |-> nf] :
        t \in TempPairs, nf \in NFCells}

\* a defect of the first row: text where a number or a date is expected, a
\* blank date, Tmin above Tmax
CellDefects == {"none", "tmin_txt", "nf_txt", "data_txt", "data_blank", "tmin_gt_tmax"}
Inject(row, d) ==
    CASE d = "none" -> row
      [] d = "tmin_txt" -> [row EXCEPT !.Tmin = Txt]
      [] d = "nf_txt" -> [row EXCEPT !.NF = Txt]
      [] d = "data_txt" -> [row EXCEPT !.Data = Txt]
      [] d = "data_blank" -> [row EXCEPT !.Data = NaN]
      [] d = "tmin_gt_tmax" -> [row EXCEPT !.Tmin = Num(row.Tmax.v + 4)]

AllCols == {"Data", "Tmin", "Tmax", "NF"}
ColDefects == {AllCols \ {"NF"}, AllCols \ {"Data", "Tmin"}}

\* the rows of a sheet: up to MaxRows rows, dated day 1, 2, ..., with at
\* most one defective cell
Sheets ==
    UNION {
      { [i \in 1..n |-> Inject([rs[i] EXCEPT !.Data = DateStr(i)],
                               IF i = 1 THEN d ELSE "none")] :
          rs \in [1..n -> CleanRows], d \in CellDefects }
      : n \in 1..MaxRows }

Restrict(rows, cs) == [i \in DOMAIN rows |-> [c \in cs |-> rows[i][c]]]

\* the uploaded tables: a sheet, or a sheet without defect that lacks some
\* of the required columns
Tables ==
    {[cols |-> AllCols, rows |-> rows] : rows \in Sheets} \cup
    UNION {
      { [cols |-> cs, rows |-> Restrict(rs, cs)] :
          rs \in [1..n -> CleanRows], cs \in ColDefects }
      : n \in 1..MaxRows }

NoTable == [cols |-> {}, rows |-> <<>>]

\* the sheets given to the Excel program: up to MaxRows rows out of a cool
\* day with 1 or 2 leaves, a warm day with 2 leaves, a warm day with no
\* measurement, and a day with text for Tmin and for the leaf count
ExcelRows ==
    {[Data |-> DateStr(0), Tmin |-> Num(2), Tmax |-> Num(6), NF |-> Num(1)],
     [Data |-> DateStr(0), Tmin |-> Num(2), Tmax |-> Num(6), NF |-> Num(2)],
     [Data |-> DateStr(0), Tmin |-> Num(8), Tmax |-> Num(12), NF |-> Num(2)],
     [Data |-> DateStr(0), Tmin |-> Num(8), Tmax |-> Num(12), NF |-> NaN],
     [Data |-> DateStr(0), Tmin |-> Txt, Tmax |-> Num(12), NF |-> Txt]}
ExcelTables ==
    UNION { { [cols |-> AllCols,
               rows |-> [i \in 1..n |-> [rs[i] EXCEPT !.Data = DateStr(i)]]] :
              rs \in [1..n -> ExcelRows] }
            : n \in 1..MaxRows }

\* the number_inputs Tb Minima, Tb Maxima, Passo Tb, in tenths of a degree:
\* 3.0..5.0 by 0.5, 3.0..5.0 by 1.5, 0.0..0.2 by 0.1, 5.0..3.0 by 1.0
TbInputs == {<<30, 50, 5>>, <<30, 50, 15>>, <<0, 2, 1>>, <<50, 30, 10>>}
ArangeLens == [g \in TbInputs |-> arange_len(g[1], g[2], g[3])]

\* the number_input "Linha de inicio (emergencia)", between 0 and
\* len(df) - 1: the first row, or the second
Emergencias(n) == {i \in {0, 1} : i <= n - 1}

\* the columns chosen for Tmin, Tmax and NF
Mappings == {[tmin |-> "Tmin", tmax |-> "Tmax", nf |-> "NF"]}

(***************************************************************************)
(* State                                                                   *)
(***************************************************************************)
VARIABLES
    program,         \* which of the two programs runs: "app" or "excel"
    uploaded_file,   \* the file of st.file_uploader: [readable, table]
    pc,              \* app.py: the position of the script run
    data,            \* app.py: load_data's result
    validated_data,  \* app.py: validate_data's table
    errors,          \* app.py: validate_data's messages
    results_df,      \* app.py: calculate_tb's table
    best_tb,         \* app.py: calculate_tb's best row
    df,              \* excel: the sheet read by pd.read_excel
    series_reshape,  \* excel: whether the installed pandas has Series.reshape
    sidebar,         \* excel: the number_inputs of the sidebar
    session_state,   \* excel: st.session_state
    mensagem,        \* excel: the message of the last analysis
    termica          \* the thermal sums of one series at two candidates

app_vars == <<pc, data, validated_data, errors, results_df, best_tb>>
excel_vars == <<df, series_reshape, sidebar, session_state, mensagem>>
vars == <<program, uploaded_file, app_vars, excel_vars, termica>>

NoSession ==
    [has |-> FALSE, resultados |-> <<>>, tb_otimo |-> 0, r2_otimo |-> Zero,
     coef_otimo |-> Zero, intercept_otimo |-> Zero, df_analise |-> NoTable,
     colunas_selecionadas |-> [tmin |-> "", tmax |-> "", nf |-> ""],
     inicio_emergencia |-> 0]
\* lines 215-225: the values the number_inputs start with, Tb in tenths
Defaults == [tb_min |-> 50, tb_max |-> 150, tb_step |-> 5, inicio_emergencia |-> 0]
NoMessage == [tipo |-> "none", tb |-> 0, r2 |-> Zero]

\* no thermal sums asked for
NoTermica ==
    [fase |-> "none", serie |-> <<>>, tb1 |-> 0, tb2 |-> 0, tmed |-> <<>>,
     std1 |-> <<>>, sta1 |-> <<>>, std2 |-> <<>>, sta2 |-> <<>>]

Init ==
    /\ termica = NoTermica
    /\ data = NoTable
    /\ validated_data = NoTable
    /\ errors = <<>>
    /\ results_df = <<>>
    /\ best_tb = NoRow
    /\ sidebar = Defaults
    /\ session_state = NoSession
    /\ mensagem = NoMessage
    /\ \/ /\ program = "app"
          /\ uploaded_file \in
                {[readable |-> FALSE, table |-> NoTable]} \cup
                {[readable |-> TRUE, table |-> t] : t \in Tables}
          /\ pc = "uploaded"
          /\ df = NoTable
          /\ series_reshape = FALSE
       \/ /\ program = "excel"
          /\ uploaded_file \in {[readable |-> TRUE, table |-> t] : t \in ExcelTables}
          /\ pc = "none"
          /\ df = uploaded_file.table
          /\ series_reshape \in BOOLEAN

\* only the messages about the columns and the dates stop the run
HasFatalProblems(errs) ==
    \E i \in DOMAIN errs : errs[i].msg \in {"colunas_obrigatorias", "data_invalida"}
\* a single message does not stop the run
HasManyProblems(errs) == Len(errs) > 1
\* line 146, "if errors:": a list is true when it is not empty
HasProblems(errs) == errs # <<>>

\* lines 139-142: load_data returns the table, or None after st.error
LoadData ==
    /\ pc = "uploaded"
    /\ IF uploaded_file.readable
       THEN data' = uploaded_file.table /\ pc' = "loaded"
       ELSE data' = NoTable /\ pc' = "load_error"
    /\ UNCHANGED <<program, uploaded_file, termica, validated_data, errors, results_df,
                   best_tb, excel_vars>>

\* line 144
ValidateData ==
    /\ pc = "loaded"
    /\ LET r == validate_data(data)
       IN  validated_data' = r.df /\ errors' = r.errors
    /\ pc' = "validated"
    /\ UNCHANGED <<program, uploaded_file, termica, data, results_df, best_tb, excel_vars>>

\* lines 146-149: any message stops the run
ShowErrors ==
    /\ pc = "validated"
    /\ HasProblems(errors)
    /\ pc' = "errors_shown"
    /\ UNCHANGED <<program, uploaded_file, termica, data, validated_data, errors,
                   results_df, best_tb, excel_vars>>

\* lines 150-200: the estimation and the display of its results; an
\* exception of calculate_tb ends the run
CalculateTb ==
    /\ pc = "validated"
    /\ ~HasProblems(errors)
    /\ \E r \in {calculate_tb(validated_data)} :
           IF r.raised
           THEN pc' = "exception" /\ UNCHANGED <<results_df, best_tb>>
           ELSE /\ pc' = "results_shown"
                /\ results_df' = r.results_df
                /\ best_tb' = r.best_tb
    /\ UNCHANGED <<program, uploaded_file, termica, data, validated_data, errors, excel_vars>>

\* lines 239-244: the row of the highest R2
Otimo(resultados) ==
    resultados[idxmax([t \in DOMAIN resultados |-> resultados[t].R2])]

\* the results table saved before the optimum is looked up in it
ExecutarAnalise_saves_first ==
    /\ program = "excel"
    /\ \E g \in TbInputs, inicio_emergencia \in Emergencias(Len(df.rows)),
          c \in Mappings :
         /\ sidebar' = [tb_min |-> g[1], tb_max |-> g[2], tb_step |-> g[3],
                         inicio_emergencia |-> inicio_emergencia]
         /\ \E resultados \in
                 {estimar_tb_otimo(df, np_arange(g[1], g[2], g[3], ArangeLens[g]),
                                   c.tmin, c.tmax, c.nf, inicio_emergencia,
                                   series_reshape)} :
              IF resultados = <<>>
              THEN /\ mensagem' = [tipo |-> "erro", tb |-> 0, r2 |-> Zero]
                   /\ session_state' = [session_state EXCEPT !.resultados = resultados]
              ELSE \E otimo \in {Otimo(resultados)} :
                   /\ session_state' =
                         [has |-> TRUE, resultados |-> resultados,
                          tb_otimo |-> otimo.Tb, r2_otimo |-> otimo.R2,
                          coef_otimo |-> otimo.Coeficiente_Angular,
                          intercept_otimo |-> otimo.Intercepto,
                          df_analise |-> df, colunas_selecionadas |-> c,
                          inicio_emergencia |-> inicio_emergencia]
                   /\ mensagem' = [tipo |-> "sucesso", tb |-> otimo.Tb, r2 |-> otimo.R2]
    /\ UNCHANGED <<program, uploaded_file, termica, app_vars, df, series_reshape>>
\* lines 228-262: the button "Executar Analise Automatica" with the values
\* of the sidebar widgets.  resultados['R2'] of an empty table raises
\* KeyError, which the except of line 260 reports.
ExecutarAnalise ==
    /\ program = "excel"
    /\ \E g \in TbInputs, inicio_emergencia \in Emergencias(Len(df.rows)),
          c \in Mappings :
         /\ sidebar' = [tb_min |-> g[1], tb_max |-> g[2], tb_step |-> g[3],
                         inicio_emergencia |-> inicio_emergencia]
         /\ \E resultados \in
                 {estimar_tb_otimo(df, np_arange(g[1], g[2], g[3], ArangeLens[g]),
                                   c.tmin, c.tmax, c.nf, inicio_emergencia,
                                   series_reshape)} :
              IF resultados = <<>>
              THEN /\ mensagem' = [tipo |-> "erro", tb |-> 0, r2 |-> Zero]
                   /\ UNCHANGED session_state
              ELSE \E otimo \in {Otimo(resultados)} :
                   /\ session_state' =
                         [has |-> TRUE, resultados |-> resultados,
                          tb_otimo |-> otimo.Tb, r2_otimo |-> otimo.R2,
                          coef_otimo |-> otimo.Coeficiente_Angular,
                          intercept_otimo |-> otimo.Intercepto,
                          df_analise |-> df, colunas_selecionadas |-> c,
                          inicio_emergencia |-> inicio_emergencia]
                   /\ mensagem' = [tipo |-> "sucesso", tb |-> otimo.Tb, r2 |-> otimo.R2]
    /\ UNCHANGED <<program, uploaded_file, termica, app_vars, df, series_reshape>>

Next == LoadData \/ ValidateData \/ ShowErrors \/ CalculateTb \/ ExecutarAnalise

Spec == Init /\ [][Next]_vars

(***************************************************************************)
(* Properties                                                              *)
(***************************************************************************)
Range(s) == {s[i] : i \in DOMAIN s}

\* best is a row of rows that no row beats, and the one of lowest Tb among
\* the rows it does not beat
StableOptimum(rows, best, Score(_), Better(_, _)) ==
    /\ best \in Range(rows)
    /\ \A r \in Range(rows) :
          /\ ~Better(Score(r), Score(best))
          /\ ~Better(Score(best), Score(r)) => best.Tb <= r.Tb

\* C1: the best row shown by app.py is the row of lowest QME, the optimum
\* saved by the Excel program is the row of highest R2 with the slope and
\* intercept of that row, and among equal scores the lowest Tb is taken.
C1_StableArgOptimum ==
    /\ pc = "results_shown" =>
          StableOptimum(results_df, best_tb,
                        LAMBDA r : r.QME, LAMBDA a, b : Less(a, b))
    /\ session_state.has =>
          StableOptimum(session_state.resultados,
                        [Tb |-> session_state.tb_otimo,
                         R2 |-> session_state.r2_otimo,
                         Coeficiente_Angular |-> session_state.coef_otimo,
                         Intercepto |-> session_state.intercept_otimo],
                        LAMBDA r : r.R2, LAMBDA a, b : Less(b, a))

\* app.py has chosen a best row that is not the first row, and a later
\* candidate has the same QME
C1_Witness ==
    /\ pc = "results_shown"
    /\ best_tb.Tb > 0
    /\ \E r \in Range(results_df) : r.Tb > best_tb.Tb /\ r.QME = best_tb.QME

\* no row of the table has a leaf count: the NF cells are blank or text
AllNFMissing(t) ==
    /\ t.rows # <<>>
    /\ "NF" \in t.cols
    /\ \A i \in DOMAIN t.rows : ~IsNum(t.rows[i]["NF"])

\* C2: when every leaf count is missing, the run does not end in an
\* unhandled exception and no candidate Tb is shown or saved as the best:
\* app.py neither raises nor displays results, the Excel program announces
\* no "Tb otimo".
C2_NoUsableFitSignalled ==
    /\ program = "app" /\ AllNFMissing(uploaded_file.table) =>
          pc \notin {"exception", "results_shown"}
    /\ program = "excel" /\ AllNFMissing(df) =>
          mensagem.tipo # "sucesso" /\ ~session_state.has

\* the rows of the table after row skip that can enter a regression: the
\* leaf count is a number and so are both temperatures (the STa of a row is
\* missing exactly when its Tmed is)
Usable(t, skip) ==
    {i \in DOMAIN t.rows :
        /\ i > skip
        /\ IsNum(to_numeric(t.rows[i]["NF"]))
        /\ IsNum(to_numeric(t.rows[i]["Tmin"]))
        /\ IsNum(to_numeric(t.rows[i]["Tmax"]))}

\* C3: a sample of fewer than 2 usable points never aborts the grid search.
\* app.py, on a table that passed validation, does not end in an exception
\* and shows a row for each of its candidates; the Excel program saves a
\* placeholder row (R2 0, slope 0, intercept 0) for every candidate.
C3_DegenerateSampleNeverAborts ==
    /\ /\ program = "app"
       /\ pc \in {"exception", "results_shown"}
       /\ Cardinality(Usable(validated_data, 0)) < 2
       => /\ pc = "results_shown"
          /\ Len(results_df) = NBaseTemps
    /\ /\ session_state.has
       /\ Cardinality(Usable(session_state.df_analise,
                             session_state.inicio_emergencia)) < 2
       => /\ session_state.resultados # <<>>
          /\ \A r \in Range(session_state.resultados) : r = Placeholder(r.Tb)

\* C4: when a cell of the column Data is text that is no date,
\* validate_data reports the date error, the message list is not empty, and
\* the run does not go on to calculate_tb.
C4_UnparseableDateIsFatal ==
    /\ program = "app"
    /\ pc \in {"validated", "errors_shown", "results_shown", "exception"}
    /\ AllCols \subseteq data.cols
    /\ \E i \in DOMAIN data.rows : data.rows[i]["Data"] = Txt
    => /\ MsgData \in Range(errors)
       /\ pc \notin {"results_shown", "exception"}

Warnings == {MsgTminTmax, MsgNF}
Fatal(m) == m.msg \in {"colunas_obrigatorias", "data_invalida"}
OnlyWarnings == errors # <<>> /\ Range(errors) \subseteq Warnings

C6_FatalShortCircuits ==
    program = "app" =>
        /\ (\E m \in Range(errors) : Fatal(m)) =>
              /\ pc \in {"validated", "errors_shown"}
              /\ results_df = <<>>
        /\ pc \in {"results_shown", "exception"} =>
              validate_data(data) = [df |-> validated_data, errors |-> <<>>]
        /\ /\ pc \in {"validated", "errors_shown", "results_shown", "exception"}
           /\ ~(AllCols \subseteq data.cols)
           => /\ errors = <<MsgColunas(SelectSeq(required_cols,
                                                 LAMBDA c : c \notin data.cols))>>
              /\ validated_data = data

\* the run has stopped on the one message that Data and Tmin are missing
C6_Witness ==
    /\ pc = "errors_shown"
    /\ errors = <<MsgColunas(<<"Data", "Tmin">>)>>
    /\ validated_data = data
    /\ results_df = <<>>

\* the Tb of the rows of a results table, in table order
TbColumn(rows) == [t \in DOMAIN rows |-> rows[t].Tb]

\* the Tb, in 1/Scale degree, of a number_input value in tenths of a degree
Degrees(tenths) == (Scale \div 10) * tenths

\* the last analysis succeeded with a range tb_min <= tb_max, tb_step > 0
RanOnRange ==
    /\ mensagem.tipo = "sucesso"
    /\ sidebar.tb_min <= sidebar.tb_max
    /\ sidebar.tb_step > 0

StepDivides == (sidebar.tb_max - sidebar.tb_min) % sidebar.tb_step = 0

\* np.arange(tb_min, tb_max + tb_step, tb_step) for the range 0..10 by 5
ZeroToTenByFive == np_arange(0, 100, 50, arange_len(0, 100, 50))

\* C7: when tb_step divides tb_max - tb_min the results table has
\* (tb_max - tb_min) / tb_step + 1 rows, the candidates tb_min,
\* tb_min + tb_step, ..., tb_max in this order; the table of app.py has the
\* 41 rows of 0..20 by 0.5; the range 0..10 by 5 gives Tb = 0, 5, 10.
C7_RowCount ==
    /\ RanOnRange /\ StepDivides =>
          TbColumn(session_state.resultados) =
              [t \in 1..((sidebar.tb_max - sidebar.tb_min) \div sidebar.tb_step + 1) |->
                  Degrees(sidebar.tb_min + (t - 1) * sidebar.tb_step)]
    /\ pc = "results_shown" =>
          TbColumn(results_df) = [t \in 1..41 |-> Degrees(5 * (t - 1))]
    /\ ZeroToTenByFive = <<Degrees(0), Degrees(50), Degrees(100)>>

\* C8: every candidate lies in [tb_min, tb_max]: the first is tb_min, none
\* exceeds tb_max, and tb_max is a candidate when tb_step divides the
\* range; the candidates of app.py lie in [0, 20] with both ends.
C8_CandidatesInRange ==
    /\ RanOnRange =>
          /\ session_state.resultados[1].Tb = Degrees(sidebar.tb_min)
          /\ \A r \in Range(session_state.resultados) :
                Degrees(sidebar.tb_min) <= r.Tb /\ r.Tb <= Degrees(sidebar.tb_max)
          /\ StepDivides =>
                \E r \in Range(session_state.resultados) :
                    r.Tb = Degrees(sidebar.tb_max)
    /\ pc = "results_shown" =>
          /\ results_df[1].Tb = Degrees(0)
          /\ results_df[Len(results_df)].Tb = Degrees(200)
          /\ \A r \in Range(results_df) : Degrees(0) <= r.Tb /\ r.Tb <= Degrees(200)

\* the regression sample of the table t at the candidate tb: the moments
\* of the STa and the leaf counts of the usable rows after row skip
Sample(t, tb, skip) ==
    LET sta == STaColumn(t, tb)
        rows == SelectSeq(Indices(t.rows), LAMBDA i : i \in Usable(t, skip))
    IN  Moments([j \in DOMAIN rows |-> sta[rows[j]].v],
                [j \in DOMAIN rows |-> to_numeric(t.rows[rows[j]]["NF"]).v])

\* the leaf counts of the sample are an exact linear function of its STa
ExactlyLinear(m) ==
    /\ m.n >= 2
    /\ m.A * m.C = m.B * m.B
    /\ m.A > 0 \/ m.C = 0

\* C9: when the leaf counts are an exact linear function of the STa of
\* some candidate of the grid, the best row has the perfect score (QME 0
\* in app.py, R2 1 in the Excel program) and its Tb is a candidate at which
\* the leaf counts are an exact linear function of the STa.
C9_PerfectFitRecovered ==
    /\ /\ pc = "results_shown"
       /\ \E r \in Range(results_df) :
             ExactlyLinear(Sample(validated_data, r.Tb, 0))
       => /\ best_tb.QME = Zero
          /\ ExactlyLinear(Sample(validated_data, best_tb.Tb, 0))
    /\ /\ session_state.has
       /\ \E r \in Range(session_state.resultados) :
             ExactlyLinear(Sample(session_state.df_analise, r.Tb,
                                  session_state.inicio_emergencia))
       => /\ session_state.r2_otimo = One
          /\ ExactlyLinear(Sample(session_state.df_analise, session_state.tb_otimo,
                                  session_state.inicio_emergencia))

\* some temperature or leaf-count cell of the table is text
HasTextCell(t) ==
    \E i \in DOMAIN t.rows : \E c \in {"Tmin", "Tmax", "NF"} : t.rows[i][c] = Txt

\* C10: a text cell in Tmin, Tmax or NF is never fatal: the run of app.py
\* on such a table ends with a row for each of the candidates, not with an
\* exception, each row scored on the measured rows with the STa summed
\* over all rows; the Excel program saves a row for every candidate.
C10_TextCellsAreNotFatal ==
    /\ /\ program = "app"
       /\ pc \in {"errors_shown", "results_shown", "exception"}
       /\ AllCols \subseteq data.cols
       /\ HasTextCell(data)
       /\ Range(errors) \subseteq Warnings
       => /\ pc # "exception"
          /\ pc = "results_shown" =>
                /\ Len(results_df) = NBaseTemps
                /\ \A r \in Range(results_df) :
                      r.QME = mean_squared_error(Sample(validated_data, r.Tb, 0))
    /\ program = "excel" /\ HasTextCell(df) /\ mensagem.tipo = "sucesso" =>
          TbColumn(session_state.resultados) =
              np_arange(sidebar.tb_min, sidebar.tb_max, sidebar.tb_step,
                        Len(session_state.resultados))

\* the row of the candidate tb fitted on the sample m: the placeholder
\* below 2 points, else the R2, slope and intercept of the least squares
FittedRow(tb, m) ==
    IF m.n < 2 THEN Placeholder(tb)
    ELSE [Tb |-> tb, R2 |-> r2_score(m),
          Coeficiente_Angular |-> coef_(m), Intercepto |-> intercept_(m)]

\* C11: the emergence skip k only removes the first k rows from the
\* regression sample: every saved row is the fit of the leaf counts of the
\* usable rows after row k on their STa, the STa being accumulated from
\* the first row of the sheet whatever k is (and every row is the
\* placeholder when no regression can be run at all).
C11_SkipOnlyRestrictsSample ==
    session_state.has =>
        \A r \in Range(session_state.resultados) :
            r = IF series_reshape
                THEN FittedRow(r.Tb, Sample(session_state.df_analise, r.Tb,
                                            session_state.inicio_emergencia))
                ELSE Placeholder(r.Tb)

\* an analysis that skipped the first row, whose STd was positive, and
\* fitted the two later rows exactly
C11_Witness ==
    /\ session_state.has
    /\ series_reshape
    /\ session_state.inicio_emergencia = 1
    /\ \E r \in Range(session_state.resultados) :
          /\ r.R2 = One
          /\ r.Coeficiente_Angular # Zero
          /\ IsNum(STaColumn(session_state.df_analise, r.Tb)[1])
          /\ STaColumn(session_state.df_analise, r.Tb)[1].v > 0

(***************************************************************************)
(* Thermal sums as functions: Tmed, STd and STa of one series at two       *)
(* candidates Tb1 <= Tb2, computed as the loops of calculate_tb (lines     *)
(* 76, 84-90) and of estimar_tb_otimo (lines 81-87) compute them.          *)
(***************************************************************************)
\* a day's (Tmin, Tmax) after the numeric coercion: a cool day, a warm day,
\* a day without Tmin
DayTemps == TempPairs \cup {<<NaN, Num(12)>>}
Series ==
    UNION {[1..n -> {[Tmin |-> t[1], Tmax |-> t[2]] : t \in DayTemps}] : n \in 1..MaxRows}

\* the candidates of both programs: base_temps and the ranges of TbInputs
Candidates ==
    Range(base_temps) \cup
    UNION {Range(np_arange(g[1], g[2], g[3], ArangeLens[g])) : g \in TbInputs}

InitTermica ==
    /\ program = "termica"
    /\ uploaded_file = [readable |-> FALSE, table |-> NoTable]
    /\ pc = "none"
    /\ data = NoTable
    /\ validated_data = NoTable
    /\ errors = <<>>
    /\ results_df = <<>>
    /\ best_tb = NoRow
    /\ df = NoTable
    /\ series_reshape = FALSE
    /\ sidebar = Defaults
    /\ session_state = NoSession
    /\ mensagem = NoMessage
    /\ \E serie \in Series, tb1 \in Candidates, tb2 \in Candidates :
          /\ tb1 <= tb2
          /\ termica = [NoTermica EXCEPT !.fase = "entrada", !.serie = serie,
                                         !.tb1 = tb1, !.tb2 = tb2]

\* df['Tmed'], then for each of the two candidates df['STd'] and df['STa']
CalcularSomasTermicas ==
    /\ termica.fase = "entrada"
    /\ \E tmed \in {[i \in DOMAIN termica.serie |->
                       calcular_tmed(termica.serie[i].Tmin, termica.serie[i].Tmax)]} :
       \E std1 \in {[i \in DOMAIN tmed |-> calcular_std(tmed[i], termica.tb1)]},
          std2 \in {[i \in DOMAIN tmed |-> calcular_std(tmed[i], termica.tb2)]} :
          termica' = [termica EXCEPT !.fase = "calculado", !.tmed = tmed,
                                     !.std1 = std1, !.sta1 = calcular_sta(std1),
                                     !.std2 = std2, !.sta2 = calcular_sta(std2)]
    /\ UNCHANGED <<program, uploaded_file, app_vars, excel_vars>>

NextTermica == CalcularSomasTermicas

SpecTermica == InitTermica /\ [][NextTermica]_vars

\* every day of the series has both temperatures
AllTempsPresent(serie) ==
    \A i \in DOMAIN serie : IsNum(serie[i].Tmin) /\ IsNum(serie[i].Tmax)

RECURSIVE Sigma(_, _)
Sigma(s, i) == IF i = 0 THEN 0 ELSE Sigma(s, i - 1) + s[i].v

\* on every day Tmed = (Tmin + Tmax) / 2 and STd = max(Tmed - tb, 0) >= 0,
\* STa is the sum of the STd up to the day, and STa does not decrease
ThermalSumsOk(serie, tb, tmed, std, sta) ==
    \A i \in DOMAIN serie :
        /\ IsNum(tmed[i])
        /\ 2 * tmed[i].v = Scale * (serie[i].Tmin.v + serie[i].Tmax.v)
        /\ IsNum(std[i]) /\ std[i].v >= 0
        /\ std[i].v >= tmed[i].v - tb
        /\ std[i].v = 0 \/ std[i].v = tmed[i].v - tb
        /\ IsNum(sta[i]) /\ sta[i].v = Sigma(std, i)
        /\ i > 1 => sta[i - 1].v <= sta[i].v

\* C12: for every candidate Tb and every series with all temperatures
\* present, each day's STd is max(Tmed - Tb, 0) >= 0 with Tmed the mean of
\* Tmin and Tmax, and STa, the running sum of STd, never decreases from a
\* day to the next.
C12_ThermalSumsNonNegativeMonotone ==
    termica.fase = "calculado" /\ AllTempsPresent(termica.serie) =>
        /\ ThermalSumsOk(termica.serie, termica.tb1, termica.tmed,
                         termica.std1, termica.sta1)
        /\ ThermalSumsOk(termica.serie, termica.tb2, termica.tmed,
                         termica.std2, termica.sta2)

\* three days with all temperatures at the candidate Tb = 5: the cool
\* first day is clamped to 0, the warm second day adds to the sum, the
\* cool third day leaves the sum as it is
C12_Witness ==
    /\ termica.fase = "calculado"
    /\ Len(termica.serie) = 3
    /\ AllTempsPresent(termica.serie)
    /\ termica.tb1 = Degrees(50)
    /\ termica.std1[1].v = 0
    /\ termica.std1[2].v > 0
    /\ termica.sta1[3].v = termica.sta1[2].v

\* C13: for any series and any two candidates Tb1 <= Tb2, on every day
\* that has its temperatures the STd computed with Tb2 is at most the STd
\* computed with Tb1, and so is the STa; a day without a temperature has
\* neither STd nor STa at either candidate.
C13_DominanceInTb ==
    termica.fase = "calculado" =>
        \A i \in DOMAIN termica.serie :
            IF IsNum(termica.tmed[i])
            THEN /\ IsNum(termica.std1[i]) /\ IsNum(termica.std2[i])
                 /\ termica.std2[i].v <= termica.std1[i].v
                 /\ IsNum(termica.sta1[i]) /\ IsNum(termica.sta2[i])
                 /\ termica.sta2[i].v <= termica.sta1[i].v
            ELSE /\ termica.std1[i] = NaN /\ termica.std2[i] = NaN
                 /\ termica.sta1[i] = NaN /\ termica.sta2[i] = NaN

\* two different candidates on three days, the second without Tmin: the
\* first day's STd is lower at Tb2, and so is the STa of the third day
C13_Witness ==
    /\ termica.fase = "calculado"
    /\ termica.tb1 < termica.tb2
    /\ Len(termica.serie) = 3
    /\ ~IsNum(termica.tmed[2])
    /\ termica.std2[1].v < termica.std1[1].v
    /\ termica.sta2[3].v < termica.sta1[3].v

\* the saved optimum, as a row
SavedOptimum(ss) ==
    [Tb |-> ss.tb_otimo, R2 |-> ss.r2_otimo,
     Coeficiente_Angular |-> ss.coef_otimo, Intercepto |-> ss.intercept_otimo]

\* the cached fields belong to one run: the table is what estimar_tb_otimo
\* returns for the saved sheet, columns and emergence row on the Tb of its
\* own rows, and the saved optimum is its first row of highest R2
OfOneRun(ss) ==
    /\ ss.resultados # <<>>
    /\ ss.resultados =
          estimar_tb_otimo(ss.df_analise, TbColumn(ss.resultados),
                           ss.colunas_selecionadas.tmin, ss.colunas_selecionadas.tmax,
                           ss.colunas_selecionadas.nf, ss.inicio_emergencia,
                           series_reshape)
    /\ StableOptimum(ss.resultados, SavedOptimum(ss),
                     LAMBDA r : r.R2, LAMBDA a, b : Less(b, a))

\* after a successful analysis the cache is that of this analysis: its
\* sheet, its emergence row, its range of candidates, the announced optimum
OfLastSuccess ==
    /\ session_state.has
    /\ session_state.df_analise = df
    /\ session_state.inicio_emergencia = sidebar.inicio_emergencia
    /\ TbColumn(session_state.resultados) =
          np_arange(sidebar.tb_min, sidebar.tb_max, sidebar.tb_step,
                    Len(session_state.resultados))
    /\ mensagem.tb = session_state.tb_otimo
    /\ mensagem.r2 = session_state.r2_otimo

\* C14: over any sequence of analyses of the Excel program the cached
\* fields belong to one single analysis, the last successful one: the
\* saved Tb, R2, slope and intercept are the first row of highest R2 of
\* the saved table, which is the table of the saved sheet, columns and
\* emergence row; and an analysis that fails leaves the cache as it was.
C14_SessionOfLastSuccessfulRun ==
    /\ [](session_state.has => OfOneRun(session_state))
    /\ [](mensagem.tipo = "sucesso" => OfLastSuccess)
    /\ [][mensagem'.tipo = "erro" => session_state' = session_state]_vars

\* an analysis on an empty range has failed after a successful analysis
\* with another emergence row, whose results are still cached
C14_Witness ==
    /\ mensagem.tipo = "erro"
    /\ sidebar.tb_min > sidebar.tb_max
    /\ session_state.has
    /\ session_state.inicio_emergencia # sidebar.inicio_emergencia
    /\ session_state.resultados # <<>>

====
